---- MODULE Spec2Model ----
(***************************************************************************)
(* Gamified Digital Literacy API (src/main.py, src/schemas.py): the        *)
(* progress recorder (POST /progress), the recommendation engine           *)
(* (GET /recommendations/{child_id}), profile creation (POST /children)    *)
(* and content seeding (POST /seed) over a document store.                 *)
(*                                                                         *)
(* A collection is a sequence of documents in insertion order; the _id of  *)
(* a document is its position in its collection (documents are never       *)
(* deleted).  An id string is a pair <<spelling, n>>: <<"lower", n>> is    *)
(* the 24 lower-case hex digits of ObjectId n (what str(ObjectId) gives),  *)
(* <<"upper", n>> the same digits in upper case (bson parses both to the   *)
(* same ObjectId), and <<"bad", 0>> a string that is no ObjectId.          *)
(***************************************************************************)
EXTENDS Integers, Sequences, FiniteSets, TLC

VARIABLES
    dbConfigured, \* database.db is not None (fixed when the module is imported)
    child,        \* collection "child": <<[points, level], ...>>
    progress,     \* collection "progress"
    lesson,       \* collection "lesson"
    game,         \* collection "game"
    mission,      \* collection "mission"
    pc,           \* pc[t]: where worker thread t is inside add_progress
    req,          \* req[t]: the locals of add_progress in worker thread t
    last,         \* get_recommendation's local `last` at its return: the fetched records' _ids
    resp          \* the response the last step returned (NoResp: it returned none)

vars == <<dbConfigured, child, progress, lesson, game, mission, pc, req, last, resp>>

store == <<child, progress, lesson, game, mission>>

\* ---------------------------------------------------------------- bounds

MaxWorkers == 2       \* worker threads serving requests at once (Spec)
MaxChildren == 1      \* profiles created
MaxProgress == 2      \* progress records stored (Spec)
RecProgress == 2      \* progress records stored (SpecRec)
RecentProgress == 4   \* progress records stored (SpecRecent)
MaxLessons == 2       \* lessons in the store at the start (SpecRec)
ScoreRecords == 1     \* progress records stored (SpecScore)

\* ------------------------------------------------------------- id strings

Malformed == <<"bad", 0>>
Ghost == 0     \* an ObjectId no stored document has (_id positions start at 1)

Hex(spelling, n) == <<spelling, n>>

\* bson.ObjectId(s) succeeds for 24 hex digits in either case
ObjectIdValid(s) == s[1] \in {"lower", "upper"}

ObjectId(s) == s[2]

\* str(ObjectId): lower-case hex
StrOfId(n) == Hex("lower", n)

\* the ids create_child has returned
ProfileIds == {StrOfId(n) : n \in 1..Len(child)}

\* the first profile's id in upper case
UpperIds == IF Len(child) >= 1 THEN {Hex("upper", 1)} ELSE {}

\* ids that resolve to no profile: a well-formed one and a malformed one
UnknownIds == {StrOfId(Ghost), Malformed}

\* ---------------------------------------------------------------- helpers

Min(a, b) == IF a <= b THEN a ELSE b
Max(a, b) == IF a >= b THEN a ELSE b

RECURSIVE SumSeq(_)
SumSeq(s) == IF s = <<>> THEN 0 ELSE Head(s) + SumSeq(Tail(s))

Range(s) == {s[i] : i \in DOMAIN s}

NoResp == [op |-> "none", arg |-> <<>>, status |-> 0, body |-> <<>>]

NoReq == [payload |-> <<>>, points_earned |-> 0, prog_id |-> <<>>, child_points |-> 0]

Response(op, arg, status, body) == [op |-> op, arg |-> arg, status |-> status, body |-> body]

\* -------------------------------------------------------------- database

\* create_document raises when the database is not configured
DatabaseAvailable == dbConfigured

\* create_document(collection_name, data): one document inserted
create_document(coll, doc) == Append(coll, doc)

\* ... and the new document's id returned as a string
InsertedId(coll) == StrOfId(Len(coll) + 1)

\* --------------------------------------------------------------- schemas

ItemTypes == {"lesson", "game"}

ScoreMin == 0
ScoreMax == 100

\* Progress(...) validates item_type, score, stars_earned and points_earned
ProgressValid(item_type, score, stars, points) ==
    /\ item_type \in ItemTypes
    /\ score >= ScoreMin /\ score <= ScoreMax
    /\ stars >= 0 /\ stars <= 3
    /\ points >= 0

AgeMin == 3
AgeMax == 10

\* Child(**payload) validates age and mode
ChildValid(age, mode) == age >= AgeMin /\ age <= AgeMax /\ mode \in {"child", "guest"}

\* Child's defaults
NewChild == [points |-> 0, level |-> 1]

\* --------------------------------------------------------- create_child

create_child(age, mode) ==
    /\ IF ChildValid(age, mode) /\ DatabaseAvailable
       THEN /\ child' = create_document(child, NewChild)
            /\ resp' = Response("create_child", <<>>, 200, [id |-> InsertedId(child)])
       ELSE /\ child' = child
            /\ resp' = Response("create_child", <<>>, 500, <<>>)
    /\ last' = <<>>
    /\ UNCHANGED <<dbConfigured, progress, lesson, game, mission, pc, req>>

\* --------------------------------------------------------- add_progress

\* faulty variant: a star every 33 points
StarsEarnedBy33(score) == Min(3, Max(0, score \div 33))

StarsEarned(score) == Min(3, Max(0, score \div 34))

PointsEarned(score) == Max(0, score)

NewPoints(child_points, points_earned) == child_points + points_earned

\* faulty variant: the level counted from 0
NewLevelNoBase(new_points) == new_points \div 200

NewLevel(new_points) == 1 + new_points \div 200

\* datetime.utcnow() of a new record: not before the newest stored record's, and
\* equal to it when both fall into the same clock reading (only the order of
\* completion times is modelled; the first record's is 1)
CompletedAt(dt) ==
    IF progress = <<>> THEN 1 ELSE progress[Len(progress)].completed_at + dt

\* prog = Progress(...); prog_id = create_document("progress", prog)
add_progress_create(t, payload, dt) ==
    LET stars == StarsEarned(payload.score)
        points == PointsEarned(payload.score)
        prog == [child_id |-> payload.child_id, item_type |-> payload.item_type,
                 score |-> payload.score, stars_earned |-> stars,
                 points_earned |-> points, completed_at |-> CompletedAt(dt)]
    IN /\ pc[t] = "idle"
       /\ IF ProgressValid(payload.item_type, payload.score, stars, points) /\ DatabaseAvailable
          THEN /\ progress' = create_document(progress, prog)
               /\ pc' = [pc EXCEPT ![t] = "created"]
               /\ req' = [req EXCEPT ![t] = [payload |-> payload,
                                             points_earned |-> points,
                                             prog_id |-> InsertedId(progress),
                                             child_points |-> 0]]
               /\ resp' = NoResp
          ELSE /\ UNCHANGED <<progress, pc, req>>
               /\ resp' = Response("add_progress", payload, 500, <<>>)
       /\ last' = <<>>
       /\ UNCHANGED <<dbConfigured, child, lesson, game, mission>>

\* the except branch and the falsy child both skip the update
ProfileMissing(child_id) ==
    \/ ~ObjectIdValid(child_id)
    \/ ObjectId(child_id) \notin DOMAIN child

\* return {"id": prog_id}
Returned(payload, prog_id) == Response("add_progress", payload, 200, [id |-> prog_id])

\* faulty variant: the failed lookup is not swallowed
SkippedRaises(t) == Response("add_progress", req[t].payload, 500, <<>>)

SkippedResponse(t) == Returned(req[t].payload, req[t].prog_id)

\* cid = ObjectId(payload.child_id); child = db["child"].find_one({"_id": cid})
add_progress_find(t) ==
    /\ pc[t] = "created"
    /\ IF ProfileMissing(req[t].payload.child_id)
       THEN /\ pc' = [pc EXCEPT ![t] = "idle"]
            /\ req' = [req EXCEPT ![t] = NoReq]
            /\ resp' = SkippedResponse(t)
       ELSE /\ pc' = [pc EXCEPT ![t] = "found"]
            /\ req' = [req EXCEPT ![t].child_points = child[ObjectId(req[t].payload.child_id)].points]
            /\ resp' = NoResp
    /\ last' = <<>>
    /\ UNCHANGED <<dbConfigured, child, progress, lesson, game, mission>>

\* db["child"].update_one({"_id": cid}, {"$set": {"points": ..., "level": ...}})
add_progress_update(t) ==
    LET cid == ObjectId(req[t].payload.child_id)
        new_points == NewPoints(req[t].child_points, req[t].points_earned)
        new_level == NewLevel(new_points)
    IN /\ pc[t] = "found"
       /\ child' = [child EXCEPT ![cid] = [points |-> new_points, level |-> new_level]]
       /\ pc' = [pc EXCEPT ![t] = "idle"]
       /\ req' = [req EXCEPT ![t] = NoReq]
       /\ resp' = Returned(req[t].payload, req[t].prog_id)
       /\ last' = <<>>
       /\ UNCHANGED <<dbConfigured, progress, lesson, game, mission>>

\* ---------------------------------------------------- get_recommendation

RecentLimit == 3

\* .find({"child_id": child_id}): the filter compares the strings
Matching(child_id) == {i \in DOMAIN progress : progress[i].child_id = child_id}

\* faulty variant: ascending order
SortedAscending(a, b) == a.completed_at <= b.completed_at

\* .sort("completed_at", -1)
SortedBefore(a, b) == a.completed_at >= b.completed_at

\* .find(...).sort(...).limit(3): every order the store may return, with records
\* of equal completion time in any order
FindSortLimit(child_id) ==
    LET m == Matching(child_id)
        k == Min(RecentLimit, Cardinality(m))
    IN {q \in [1..k -> m] :
          /\ \A a, b \in 1..k : a < b => q[a] # q[b] /\ SortedBefore(progress[q[a]], progress[q[b]])
          /\ \A j \in m \ Range(q) : \A a \in 1..k : SortedBefore(progress[q[a]], progress[j])}

\* avg = sum(scores) / len(scores) if scores else 0, kept as a fraction
AvgOf(scores) ==
    IF scores # <<>> THEN [num |-> SumSeq(scores), den |-> Len(scores)]
    ELSE [num |-> 0, den |-> 1]

\* faulty variant: avg <= 50
LowBranchInclusive(avg) == avg.num <= 50 * avg.den

\* avg < 50
LowBranch(avg) == avg.num < 50 * avg.den

\* avg <= 80
MidBranch(avg) == avg.num <= 80 * avg.den

\* a document matches a filter when it has every field of the filter
Matches(doc, filter) == \A k \in DOMAIN filter : doc[k] = filter[k]

\* find_one(filter): the first matching document's position, 0 for None
FindOne(coll, filter) ==
    LET m == {i \in DOMAIN coll : Matches(coll[i], filter)}
    IN IF m = {} THEN 0 ELSE CHOOSE i \in m : \A j \in m : i <= j

\* a or b
OrElse(a, b) == IF a # 0 THEN a ELSE b

EasySafety == [level |-> "easy", topic |-> "safety"]
Easy == [level |-> "easy"]
Medium == [level |-> "medium"]
AnyDoc == <<>>

LowReason == "Average score low; reinforce safety basics"
MidReason == "Doing well; try a medium challenge"
HighReason == "Great scores; keep it fun with a game"
MissionReason == "General growth mission"
NoRecommendation == [message |-> "No recommendation available yet"]

Recommendation(child_id, type, doc, reason) ==
    [child_id |-> child_id, recommended_type |-> type, ref_id |-> StrOfId(doc), reason |-> reason]

\* faulty variant: the fallback tries a game before a mission
FallbackGameFirst(child_id) ==
    LET g == FindOne(game, AnyDoc)
        doc == FindOne(mission, AnyDoc)
    IN IF g # 0 THEN Recommendation(child_id, "game", g, HighReason)
       ELSE IF doc # 0 THEN Recommendation(child_id, "mission", doc, MissionReason)
       ELSE NoRecommendation

\* the mission fallback and the sentinel
Fallback(child_id) ==
    LET doc == FindOne(mission, AnyDoc)
    IN IF doc # 0 THEN Recommendation(child_id, "mission", doc, MissionReason)
       ELSE NoRecommendation

\* the decision tree
Decide(child_id, scores) ==
    LET avg == AvgOf(scores)
    IN IF LowBranch(avg)
       THEN LET doc == OrElse(FindOne(lesson, EasySafety), FindOne(lesson, Easy))
            IN IF doc # 0 THEN Recommendation(child_id, "lesson", doc, LowReason)
               ELSE Fallback(child_id)
       ELSE IF MidBranch(avg)
       THEN LET doc == OrElse(FindOne(lesson, Medium), FindOne(lesson, Easy))
            IN IF doc # 0 THEN Recommendation(child_id, "lesson", doc, MidReason)
               ELSE Fallback(child_id)
       ELSE LET doc == FindOne(game, AnyDoc)
            IN IF doc # 0 THEN Recommendation(child_id, "game", doc, HighReason)
               ELSE Fallback(child_id)

\* faulty variant: the id is not parsed before the lookup
LookupStatusNoParse(child_id) ==
    IF ~dbConfigured THEN 500
    ELSE IF ~ObjectIdValid(child_id) \/ ObjectId(child_id) \notin DOMAIN child THEN 404
    ELSE 200

\* the status of the lookup: 500, 400, 404 or 200
LookupStatus(child_id) ==
    IF ~dbConfigured THEN 500
    ELSE IF ~ObjectIdValid(child_id) THEN 400
    ELSE IF ObjectId(child_id) \notin DOMAIN child THEN 404
    ELSE 200

get_recommendation(child_id) ==
    /\ IF LookupStatus(child_id) # 200
       THEN /\ last' = <<>>
            /\ resp' = Response("get_recommendation", child_id, LookupStatus(child_id), <<>>)
       ELSE \E q \in FindSortLimit(child_id) :
              /\ last' = q
              /\ resp' = Response("get_recommendation", child_id, 200,
                                  Decide(child_id, [a \in DOMAIN q |-> progress[q[a]].score]))
    /\ UNCHANGED <<dbConfigured, child, progress, lesson, game, mission, pc, req>>

\* ----------------------------------------------------------- seed_content

DevicesLesson == [topic |-> "devices", level |-> "easy"]
SafetyLesson == [topic |-> "safety", level |-> "easy"]
SeedGame == [key |-> "safe-choice"]
SeedMission == [target_type |-> "lessons"]

\* faulty variant: no emptiness check
EnsureAlways(coll, doc) == create_document(coll, doc)

\* ensure(coll, doc)
Ensure(coll, doc) == IF Len(coll) = 0 THEN create_document(coll, doc) ELSE coll

SeedLessons(coll) == Ensure(Ensure(coll, DevicesLesson), SafetyLesson)
SeedGames(coll) == Ensure(coll, SeedGame)
SeedMissions(coll) == Ensure(coll, SeedMission)

seed_content ==
    /\ IF dbConfigured
       THEN /\ lesson' = SeedLessons(lesson)
            /\ game' = SeedGames(game)
            /\ mission' = SeedMissions(mission)
            /\ resp' = Response("seed_content", <<>>, 200, [status |-> "ok"])
       ELSE /\ UNCHANGED <<lesson, game, mission>>
            /\ resp' = Response("seed_content", <<>>, 500, <<>>)
    /\ last' = <<>>
    /\ UNCHANGED <<dbConfigured, child, progress, pc, req>>


\* ------------------------------------------------- add_progress, one request

\* the whole handler with no other request between its steps
add_progress(payload, dt) ==
    LET stars == StarsEarned(payload.score)
        points == PointsEarned(payload.score)
        prog == [child_id |-> payload.child_id, item_type |-> payload.item_type,
                 score |-> payload.score, stars_earned |-> stars,
                 points_earned |-> points, completed_at |-> CompletedAt(dt)]
        cid == ObjectId(payload.child_id)
        new_points == NewPoints(child[cid].points, points)
    IN /\ \A t \in DOMAIN pc : pc[t] = "idle"
       /\ IF ProgressValid(payload.item_type, payload.score, stars, points) /\ DatabaseAvailable
          THEN /\ progress' = create_document(progress, prog)
               /\ IF ProfileMissing(payload.child_id)
                  THEN child' = child
                  ELSE child' = [child EXCEPT ![cid] =
                                    [points |-> new_points, level |-> NewLevel(new_points)]]
               /\ resp' = Returned(payload, InsertedId(progress))
          ELSE /\ UNCHANGED <<progress, child>>
               /\ resp' = Response("add_progress", payload, 500, <<>>)
       /\ last' = <<>>
       /\ UNCHANGED <<dbConfigured, lesson, game, mission, pc, req>>

\* ------------------------------------------------------------ the service

Ages == {2, 3, 10, 11}
Modes == {"child", "guest", "admin"}

Payloads(ids, types, scores) ==
    [child_id : ids, item_type : types, score : scores]

\* submissions that Progress(...) rejects
InvalidPayloads ==
    Payloads({Malformed}, {"quiz"}, {50}) \cup Payloads({Malformed}, {"lesson"}, {-1, 101})

NoRequests ==
    /\ pc = [t \in 1..MaxWorkers |-> "idle"]
    /\ req = [t \in 1..MaxWorkers |-> NoReq]
    /\ last = <<>>
    /\ resp = NoResp

\* a fresh database
Init ==
    /\ dbConfigured \in BOOLEAN
    /\ child = <<>>
    /\ progress = <<>>
    /\ lesson = <<>>
    /\ game = <<>>
    /\ mission = <<>>
    /\ NoRequests

\* Spec: requests are served by a pool of worker threads, so the store
\* operations of overlapping add_progress requests interleave
Next ==
    \/ \E age \in Ages, mode \in Modes :
          Len(child) < MaxChildren /\ create_child(age, mode)
    \/ \E t \in 1..MaxWorkers,
          payload \in Payloads(ProfileIds, {"lesson"}, {50, 100})
                         \cup Payloads(UnknownIds, {"lesson"}, {50})
                         \cup InvalidPayloads :
            Len(progress) < MaxProgress /\ add_progress_create(t, payload, 1)
    \/ \E t \in 1..MaxWorkers : add_progress_find(t)
    \/ \E t \in 1..MaxWorkers : add_progress_update(t)
    \/ \E child_id \in ProfileIds \cup UnknownIds : get_recommendation(child_id)
    \/ seed_content

Spec == Init /\ [][Next]_vars

\* SpecScore: every score, one submission at a time
NextScore ==
    \E payload \in Payloads({StrOfId(Ghost)}, {"lesson", "game", "quiz"}, (ScoreMin - 1)..(ScoreMax + 1)) :
        Len(progress) < ScoreRecords /\ add_progress(payload, 1)

SpecScore == Init /\ [][NextScore]_vars

\* SpecRec: one profile is stored, and the store holds any lessons, games and
\* missions at the start
MediumLesson == [topic |-> "etiquette", level |-> "medium"]
AdvancedLesson == [topic |-> "safety", level |-> "advanced"]

LessonKinds == {DevicesLesson, SafetyLesson, MediumLesson, AdvancedLesson}

SeqsUpTo(S, n) == UNION {[1..k -> S] : k \in 0..n}

InitRec ==
    /\ dbConfigured \in BOOLEAN
    /\ child = <<NewChild>>
    /\ progress = <<>>
    /\ lesson \in SeqsUpTo(LessonKinds, MaxLessons)
    /\ game \in {<<>>, <<SeedGame>>}
    /\ mission \in {<<>>, <<SeedMission>>}
    /\ NoRequests

NextRec ==
    \/ \E payload \in Payloads(ProfileIds, {"lesson"}, {49, 50, 80, 81}) \cup InvalidPayloads :
          Len(progress) < RecProgress /\ add_progress(payload, 1)
    \/ \E child_id \in ProfileIds \cup UnknownIds : get_recommendation(child_id)
    \/ seed_content

SpecRec == InitRec /\ [][NextRec]_vars

\* SpecRecent: completion times may tie, and a profile is also addressed by
\* the upper-case spelling of its id
NextRecent ==
    \/ \E age \in Ages, mode \in Modes :
          Len(child) < MaxChildren /\ create_child(age, mode)
    \/ \E dt \in {0, 1}, payload \in Payloads({StrOfId(1)} \cap ProfileIds, {"game"}, {0, 100}) :
          Len(progress) < RecentProgress /\ add_progress(payload, dt)
    \/ \E payload \in Payloads((ProfileIds \ {StrOfId(1)}) \cup UpperIds, {"game"}, {100}) :
          Len(progress) < RecentProgress /\ add_progress(payload, 1)
    \/ \E child_id \in ProfileIds \cup UpperIds : get_recommendation(child_id)
    \/ seed_content

SpecRecent == Init /\ [][NextRecent]_vars

\* ------------------------------------------------------------- properties

IsRecommendation(body) == "recommended_type" \in DOMAIN body

\* the positions of the lessons of a level
LessonsOfLevel(level) == {i \in DOMAIN lesson : lesson[i].level = level}

\* the scores get_recommendation averaged
FetchedScores == [a \in DOMAIN last |-> progress[last[a]].score]

Recommended == resp.op = "get_recommendation" /\ resp.status = 200

\* C1: every submitted score s in 0..100 (with a valid item type) is accepted,
\* and every stored progress record has a score s in 0..100, stars_earned =
\* min(3, max(0, floor(s/34))) and points_earned = s; the record whose id the
\* response names holds the submitted score.
C1_ScoreRewards ==
    /\ \A i \in DOMAIN progress :
          LET s == progress[i].score
              floor34 == s \div 34
              clamped == IF floor34 < 0 THEN 0 ELSE IF floor34 > 3 THEN 3 ELSE floor34
          IN /\ s \in 0..100
             /\ progress[i].stars_earned = clamped
             /\ progress[i].points_earned = s
    /\ (/\ resp.op = "add_progress"
        /\ dbConfigured
        /\ resp.arg.score \in 0..100
        /\ resp.arg.item_type \in {"lesson", "game"})
          => /\ resp.status = 200
             /\ ObjectId(resp.body.id) \in DOMAIN progress
             /\ progress[ObjectId(resp.body.id)].score = resp.arg.score

C1_Witness ==
    /\ resp.op = "add_progress" /\ resp.status = 200 /\ resp.arg.score = 100
    /\ \E i \in DOMAIN progress :
          /\ progress[i].score = 100
          /\ progress[i].stars_earned = 2
          /\ progress[i].points_earned = 100

\* C2: every stored profile has level = 1 + floor(points/200), points >= 0 and
\* level >= 1, in every reachable state.
C2_LevelOfPoints ==
    \A i \in DOMAIN child :
        /\ child[i].level = 1 + child[i].points \div 200
        /\ child[i].points >= 0
        /\ child[i].level >= 1

C2_Witness ==
    \E i \in DOMAIN child : child[i].points >= 200 /\ child[i].level = 2

\* the points_earned of all stored records submitted for profile i
RECURSIVE EarnedUpTo(_, _)
EarnedUpTo(i, n) ==
    IF n = 0 THEN 0
    ELSE EarnedUpTo(i, n - 1)
           + (IF ObjectIdValid(progress[n].child_id) /\ ObjectId(progress[n].child_id) = i
              THEN progress[n].points_earned ELSE 0)

AllCompleted == \A t \in DOMAIN pc : pc[t] = "idle"

\* C3: overlapping add_progress submissions add their points atomically: once
\* all submissions have completed, a profile's points are the sum of the
\* points_earned of all submissions made for it, and its level is computed
\* from that total.
C3_AtomicAdd ==
    AllCompleted =>
        \A i \in DOMAIN child :
            /\ child[i].points = EarnedUpTo(i, Len(progress))
            /\ child[i].level = 1 + EarnedUpTo(i, Len(progress)) \div 200

\* C4: no step lowers a profile's points or level, and the step that completes
\* an add_progress with score s for an existing profile raises its points by
\* exactly s.
C4_PointsNeverDecrease ==
    [][/\ \A i \in DOMAIN child :
             /\ child'[i].points >= child[i].points
             /\ child'[i].level >= child[i].level
       /\ \A t \in DOMAIN pc :
             (pc[t] = "found" /\ pc'[t] = "idle") =>
                 child'[ObjectId(req[t].payload.child_id)].points
                     = child[ObjectId(req[t].payload.child_id)].points + req[t].payload.score
      ]_vars

\* C5: a valid submission whose profile id does not resolve is not rejected;
\* its first step appends exactly one progress record carrying that id, its
\* last step returns status 200 with that record's id, and neither step
\* changes any profile.
C5_UnresolvedSubmission ==
    [][/\ \A t \in DOMAIN pc :
             /\ (pc[t] = "idle" /\ pc'[t] = "created"
                     /\ ProfileMissing(req'[t].payload.child_id)) =>
                   /\ Len(progress') = Len(progress) + 1
                   /\ SubSeq(progress', 1, Len(progress)) = progress
                   /\ progress'[Len(progress')].child_id = req'[t].payload.child_id
                   /\ req'[t].prog_id = StrOfId(Len(progress'))
                   /\ child' = child
             /\ (pc[t] = "created" /\ pc'[t] # "created"
                     /\ ProfileMissing(req[t].payload.child_id)) =>
                   /\ pc'[t] = "idle"
                   /\ resp'.op = "add_progress" /\ resp'.status = 200
                   /\ resp'.arg = req[t].payload
                   /\ resp'.body = [id |-> req[t].prog_id]
                   /\ progress' = progress
                   /\ progress[ObjectId(req[t].prog_id)].child_id = req[t].payload.child_id
                   /\ child' = child
       /\ (/\ resp'.op = "add_progress" /\ resp'.status # 200 /\ dbConfigured
           /\ ProfileMissing(resp'.arg.child_id))
              => ~(resp'.arg.item_type \in {"lesson", "game"} /\ resp'.arg.score \in 0..100)
      ]_vars

C5_Witness ==
    /\ resp.op = "add_progress" /\ resp.status = 200
    /\ resp.arg.child_id = Malformed
    /\ progress[ObjectId(resp.body.id)].child_id = Malformed
    /\ \E i \in DOMAIN progress : progress[i].child_id = StrOfId(Ghost)
    /\ child # <<>>

C8_LookupErrors ==
    [][(resp'.op = "get_recommendation" /\ dbConfigured) =>
          /\ ~ObjectIdValid(resp'.arg) =>
                 /\ resp'.status = 400 /\ resp'.body = <<>>
                 /\ store' = store
          /\ (ObjectIdValid(resp'.arg) /\ ObjectId(resp'.arg) \notin DOMAIN child) =>
                 /\ resp'.status = 404 /\ resp'.body = <<>>
                 /\ store' = store
      ]_vars

C8_Witness ==
    /\ resp.op = "get_recommendation" /\ resp.status = 404
    /\ resp.arg = StrOfId(Ghost)
    /\ lesson # <<>> /\ game # <<>> /\ mission # <<>> /\ progress # <<>>

C10_SeedIdempotent ==
    [][(resp'.op = "seed_content" /\ resp'.status = 200) =>
          /\ lesson # <<>> => lesson' = lesson
          /\ game # <<>> => game' = game
          /\ mission # <<>> => mission' = mission
          /\ <<child', progress'>> = <<child, progress>>
          /\ (resp.op = "seed_content" /\ resp.status = 200) =>
                 <<lesson', game', mission'>> = <<lesson, game, mission>>
      ]_vars

\* a store that held a lesson but no game: the game is seeded, the lessons are untouched
C10_Witness ==
    /\ resp.op = "seed_content" /\ resp.status = 200
    /\ lesson = <<MediumLesson>>
    /\ game = <<SeedGame>>
    /\ mission = <<SeedMission>>
====
